---- MODULE Spec2Model ----
(***************************************************************************)
(* Smart Quiz: the React client (App component) and the Express server     *)
(* with its file-backed score store (db.json).                             *)
(*                                                                         *)
(* Text values (user names, topics) are sequences of characters, so that   *)
(* trim() and the parsing of the get-scores query string are computed.     *)
(* A JavaScript null is the empty set and a non-null value v is {v}.       *)
(***************************************************************************)
EXTENDS Integers, Sequences, FiniteSets, Bags, TLC

(* ------------------------------ bounds --------------------------------- *)

\* number of questions of the quizzes the provider returns in the model
MaxQuestions == 2
\* number of attempts (timestamps) that can be created
MaxClock == 2
\* get-scores requests of the App that may be in flight at a time
MaxInFlight == 1
\* requests of one kind other HTTP clients may have in flight at a time
MaxApiInFlight == 2
\* get-scores requests of the App in flight where the order of their
\* responses is studied
MaxFetches == 2
\* number of attempts that can be created where progress is studied
MaxLiveClock == 1

(* ------------------------------- text ---------------------------------- *)

EmptyStr == << >>

RECURSIVE TrimStart(_)
TrimStart(s) ==
  IF s # << >> /\ Head(s) = " " THEN TrimStart(Tail(s)) ELSE s

RECURSIVE TrimEnd(_)
TrimEnd(s) ==
  IF s # << >> /\ s[Len(s)] = " " THEN TrimEnd(SubSeq(s, 1, Len(s) - 1)) ELSE s

\* String.prototype.trim
Trim(s) == TrimEnd(TrimStart(s))

\* what the user can type into the name box
UsernameInputs == { <<" ">>, <<"a", " ">>, <<"a", "&", "b">> }

\* what the user can type into the topic box
TopicInputs == { <<" ">>, <<"S">> }

\* user names and topics other HTTP clients of the server put in their requests
ApiUsernames == { EmptyStr, <<"a">>, <<"b">>, <<"__proto__">> }
ApiTopics == { EmptyStr, <<"T">> }

\* property names every plain JavaScript object inherits from Object.prototype
\* ("__proto__" stands for them: constructor, toString, ... behave alike in
\* the truthiness test; "__proto__" is one token of the text model)
InheritedKeys == { <<"__proto__">> }

\* the `username` parameter Express parses out of
\* `/api/get-scores?username=${currentUser}`: the name is not URL-encoded,
\* so the value ends at the first "&" or "#"
RECURSIVE QueryUsername(_)
QueryUsername(s) ==
  IF s = << >> \/ Head(s) \in {"&", "#"}
  THEN << >>
  ELSE << Head(s) >> \o QueryUsername(Tail(s))

\* JavaScript truthiness of a string
Falsy(s) == s = EmptyStr

(* ------------------------------ nullable ------------------------------- *)

Null == {}
Some(v) == { v }
IsNull(x) == x = {}
Val(x) == CHOOSE v \in x : TRUE

(* ------------------------------ quiz data ------------------------------ *)

Options4 == << "A", "B", "C", "D" >>
Options2 == << "A", "B" >>

\* questions the provider may return: one well formed, one whose
\* correctIndex is out of range, one with two options only
QuestionPool ==
  { [options |-> Options4, correctIndex |-> 1],
    [options |-> Options4, correctIndex |-> 4],
    [options |-> Options2, correctIndex |-> 0] }

RECURSIVE SeqsUpTo(_, _)
SeqsUpTo(S, n) ==
  IF n = 0 THEN { << >> }
  ELSE LET shorter == SeqsUpTo(S, n - 1)
       IN  shorter \cup { Append(q, x) : q \in { t \in shorter : Len(t) = n - 1 }, x \in S }

\* the lists the provider returns: empty, or MaxQuestions questions
QuestionLists == { q \in SeqsUpTo(QuestionPool, MaxQuestions) : Len(q) \in {0, MaxQuestions} }

\* option indices the user clicks (0-based, as in the source)
OptionClicks == { 0, 1 }

\* an unanswered slot of userAnswers (null in the source)
Unset == -1

(* -------------------------- server: db helpers ------------------------- *)

EmptyDb == << >>

DbMissing == [kind |-> "missing", db |-> EmptyDb]
DbEmptyFile == [kind |-> "empty", db |-> EmptyDb]
DbCorrupt == [kind |-> "corrupt", db |-> EmptyDb]

\* JSON.stringify(data, null, 2) as written to db.json, and JSON.parse of it:
\* the values stored are strings and integers that came out of a JSON body
JsonStringify(data) == [kind |-> "json", db |-> data]
JsonParse(file) == file.db

\* readDb: the object held by the file; {} when the file is missing or
\* empty, and {} when reading or parsing throws (ioOk = FALSE: readFileSync
\* throws; a corrupt file: JSON.parse throws)
readDb(file, ioOk) ==
  IF file.kind = "missing" THEN EmptyDb
  ELSE IF ~ioOk THEN EmptyDb
  ELSE IF file.kind = "empty" THEN EmptyDb
  ELSE IF file.kind = "corrupt" THEN EmptyDb
  ELSE JsonParse(file)

\* outcomes of fs.writeFileSync: it opens the file truncating it and then
\* writes; a failure leaves the old file, an empty file or a partial one
WriteOutcomes == { "ok", "failOpen", "failTruncated", "failPartial" }

\* writeDb: the file after the call; a failure is logged and swallowed
writeDb(file, data, outcome) ==
  CASE outcome = "ok" -> JsonStringify(data)
    [] outcome = "failOpen" -> file
    [] outcome = "failTruncated" -> DbEmptyFile
    [] outcome = "failPartial" -> DbCorrupt

\* db[username] on a plain object: an own property, else a property
\* inherited from Object.prototype, else undefined
DbGet(db, username) ==
  IF username \in DOMAIN db THEN [type |-> "array", items |-> db[username]]
  ELSE IF username \in InheritedKeys THEN [type |-> "object", items |-> << >>]
  ELSE [type |-> "undefined", items |-> << >>]

\* db[username] = value
DbPut(db, username, value) ==
  [k \in (DOMAIN db) \cup {username} |-> IF k = username THEN value ELSE db[k]]

(* --------------------------- server: routes ---------------------------- *)

\* values of GEMINI_API_KEY in .env: the placeholder, a real key
ApiKeys == { <<"paste_your">>, <<"k">> }

\* the API key check of /api/generate-quiz
ApiKeyInvalid(key) ==
  Falsy(key) \/ (\E i \in 1..Len(key) : key[i] = "paste_your")

\* what JSON.parse of the provider's text can be
NoData == [shape |-> "none", questions |-> << >>]
ParsedQuizJson ==
  { [shape |-> sh, questions |-> qs] : sh \in {"questionsObject", "array"}, qs \in QuestionLists }
    \cup { [shape |-> "emptyObject", questions |-> << >>],
           [shape |-> "null", questions |-> << >>] }

\* the provider call: axios.post rejects (transport error or a non-2xx
\* answer), or the text is not JSON, or it parses
ProviderOutcomes ==
  { [ok |-> FALSE, why |-> w, json |-> NoData] : w \in {"transport", "provider", "unparseable"} }
    \cup { [ok |-> TRUE, why |-> "parsed", json |-> j] : j \in ParsedQuizJson }

\* response of /api/generate-quiz
GenerateQuizResult(key, outcome) ==
  IF ApiKeyInvalid(key) THEN [status |-> 500, data |-> NoData]
  ELSE IF ~outcome.ok THEN [status |-> 500, data |-> NoData]
  ELSE [status |-> 200, data |-> outcome.json]

NoScores == [isArray |-> TRUE, items |-> << >>]

\* response of /api/get-scores: res.json(db[username] || [])
GetScoresResult(file, username, ioOk) ==
  IF Falsy(username) THEN [status |-> 400, data |-> NoScores]
  ELSE LET found == DbGet(readDb(file, ioOk), username)
       IN  CASE found.type = "array" -> [status |-> 200, data |-> [isArray |-> TRUE, items |-> found.items]]
             [] found.type = "object" -> [status |-> 200, data |-> [isArray |-> FALSE, items |-> << >>]]
             [] OTHER -> [status |-> 200, data |-> NoScores]

\* a validation that forgets the topic
SaveScoreInvalidUsernameOnly(body) == Falsy(body.username)

\* the validation of /api/save-score
SaveScoreInvalid(body) == Falsy(body.username) \/ Falsy(body.topic)

scoreDataOf(body) ==
  [topic |-> body.topic, score |-> body.score, total |-> body.total, timestamp |-> body.timestamp]

\* /api/save-score: the response status and the file afterwards.  push on
\* an inherited, non-array property throws a TypeError, which Express
\* answers with 500 before anything is written
SaveScoreResult(file, body, ioOk, outcome) ==
  IF SaveScoreInvalid(body) THEN [status |-> 400, file |-> file]
  ELSE LET db == readDb(file, ioOk)
           found == DbGet(db, body.username)
           list == IF found.type = "undefined" THEN << >> ELSE found.items
       IN  IF found.type = "object" THEN [status |-> 500, file |-> file]
           ELSE [status |-> 201,
                 file |-> writeDb(file, DbPut(db, body.username, Append(list, scoreDataOf(body))), outcome)]

(* --------------------------- client: helpers --------------------------- *)

\* a check that looks at the first slot only
HasUnansweredFirstOnly(answers) == answers[1] = Unset

\* userAnswers.some(answer => answer === null)
HasUnanswered(answers) == \E i \in 1..Len(answers) : answers[i] = Unset

\* a count that skips the first question
RECURSIVE CountCorrectSkipsFirst(_, _, _)
CountCorrectSkipsFirst(quiz, answers, n) ==
  IF n <= 1 THEN 0
  ELSE CountCorrectSkipsFirst(quiz, answers, n - 1)
         + (IF quiz[n].correctIndex = answers[n] THEN 1 ELSE 0)

\* the score counted by the map callback over questions 1..n
RECURSIVE CountCorrect(_, _, _)
CountCorrect(quiz, answers, n) ==
  IF n = 0 THEN 0
  ELSE CountCorrect(quiz, answers, n - 1)
         + (IF quiz[n].correctIndex = answers[n] THEN 1 ELSE 0)

\* one feedback entry: { ...q, userAnswer: q.options[userAnswers[i]], isCorrect };
\* an index that is no element of q.options reads as undefined
FeedbackEntry(q, answer) ==
  [options |-> q.options, correctIndex |-> q.correctIndex,
   userAnswer |-> IF answer + 1 \in DOMAIN q.options
                  THEN q.options[answer + 1] ELSE "undefined",
   isCorrect |-> (q.correctIndex = answer)]

\* finalResults of handleSubmitQuiz
ScoreLocally(quiz, answers) ==
  [score |-> CountCorrect(quiz, answers, Len(quiz)),
   total |-> Len(quiz),
   feedback |-> [i \in 1..Len(quiz) |-> FeedbackEntry(quiz[i], answers[i])]]

\* questions = response.data.questions || response.data, kept when
\* `questions && questions.length > 0`; << >> when the test fails
AcceptedQuestions(data) ==
  IF data.shape \in {"questionsObject", "array"} THEN data.questions ELSE << >>

\* an answer vector with one slot too many
FreshAnswersOneExtra(questions) == [i \in 1..(Len(questions) + 1) |-> Unset]

\* new Array(questions.length).fill(null)
FreshAnswers(questions) == [i \in 1..Len(questions) |-> Unset]

\* insert into a list sorted newest first, after the entries that are not older
RECURSIVE InsertNewestFirst(_, _)
InsertNewestFirst(sorted, s) ==
  IF sorted = << >> THEN << s >>
  ELSE IF Head(sorted).timestamp >= s.timestamp
       THEN << Head(sorted) >> \o InsertNewestFirst(Tail(sorted), s)
       ELSE << s >> \o sorted

\* response.data.sort((a, b) => new Date(b.timestamp) - new Date(a.timestamp))
RECURSIVE SortNewestFirst(_)
SortNewestFirst(items) ==
  IF items = << >> THEN << >>
  ELSE InsertNewestFirst(SortNewestFirst(SubSeq(items, 1, Len(items) - 1)), items[Len(items)])

(* -------------------------------- state -------------------------------- *)

VARIABLES
  usernameInput,  \* App state: text of the name box
  currentUser,    \* App state: Null or the logged-in name
  topic,          \* App state: text of the topic box
  quizData,       \* App state: Null or the list of questions
  userAnswers,    \* App state: Null or one slot per question
  results,        \* App state: Null or finalResults
  isLoading,      \* App state
  error,          \* App state: message shown, "" for none
  pastScores,     \* App state: history shown
  loadingScores,  \* App state
  apiKey,         \* server: process.env.GEMINI_API_KEY
  dbFile,         \* server: db.json
  genReqs,        \* bag of /api/generate-quiz calls awaited by the App
  scoreReqs,      \* bag of /api/get-scores calls in flight
  saveReqs,       \* bag of /api/save-score calls in flight
  now             \* the clock read by new Date()

appVars == << usernameInput, currentUser, topic, quizData, userAnswers, results,
              isLoading, error, pastScores, loadingScores >>
quizVars == << quizData, userAnswers, results >>
serverVars == << apiKey, dbFile >>
netVars == << genReqs, scoreReqs, saveReqs >>
vars == << appVars, serverVars, netVars, now >>

Put(bag, m) == bag (+) SetToBag({m})
Take(bag, m) == bag (-) SetToBag({m})
Pending(bag, stage) == { m \in BagToSet(bag) : m.stage = stage }

\* transport failure seen by axios: no HTTP status
NoStatus == 0

GenRequest(t) == [stage |-> "request", topic |-> t, status |-> NoStatus, data |-> NoData]
ScoresRequest(from, u) ==
  [from |-> from, stage |-> "request", username |-> u, status |-> NoStatus, data |-> NoScores]
SaveRequest(from, body) ==
  [from |-> from, stage |-> "request", body |-> body, status |-> NoStatus]

\* what is rendered
LoginScreen == IsNull(currentUser)
InputView == ~IsNull(currentUser) /\ IsNull(quizData) /\ IsNull(results)
\* a quiz view that stays rendered once the quiz is scored
QuizViewIgnoringResults == ~IsNull(currentUser) /\ ~IsNull(quizData)
QuizView == ~IsNull(currentUser) /\ ~IsNull(quizData) /\ IsNull(results)
ResultsView == ~IsNull(currentUser) /\ ~IsNull(results)

Init ==
  /\ usernameInput = EmptyStr
  /\ currentUser = Null
  /\ topic = EmptyStr
  /\ quizData = Null
  /\ userAnswers = Null
  /\ results = Null
  /\ isLoading = FALSE
  /\ error = ""
  /\ pastScores = << >>
  /\ loadingScores = FALSE
  /\ apiKey \in ApiKeys
  /\ dbFile = DbMissing
  /\ genReqs = EmptyBag
  /\ scoreReqs = EmptyBag
  /\ saveReqs = EmptyBag
  /\ now = 0

(* ---------------------------- server actions --------------------------- *)

GenerateQuizRoute ==
  \E m \in Pending(genReqs, "request"), outcome \in ProviderOutcomes :
    LET r == GenerateQuizResult(apiKey, outcome)
    IN  /\ genReqs' = Put(Take(genReqs, m),
                          [m EXCEPT !.stage = "response", !.status = r.status, !.data = r.data])
        /\ UNCHANGED << appVars, serverVars, scoreReqs, saveReqs, now >>

GetScoresRoute ==
  \E m \in Pending(scoreReqs, "request"), ioOk \in BOOLEAN :
    LET r == GetScoresResult(dbFile, m.username, ioOk)
    IN  /\ scoreReqs' = Put(Take(scoreReqs, m),
                            [m EXCEPT !.stage = "response", !.status = r.status, !.data = r.data])
        /\ UNCHANGED << appVars, serverVars, genReqs, saveReqs, now >>

SaveScoreRoute ==
  \E m \in Pending(saveReqs, "request"), ioOk \in BOOLEAN, outcome \in WriteOutcomes :
    LET r == SaveScoreResult(dbFile, m.body, ioOk, outcome)
    IN  /\ dbFile' = r.file
        /\ saveReqs' = Put(Take(saveReqs, m), [m EXCEPT !.stage = "response", !.status = r.status])
        /\ UNCHANGED << appVars, apiKey, genReqs, scoreReqs, now >>

(* -------------------------- transport failures ------------------------- *)

\* a request that never arrives, or a response that is lost: axios rejects
Deliverable(bag) == { m \in BagToSet(bag) : m.stage = "request" \/ m.status # NoStatus }

GenerateTransportFailure ==
  \E m \in Deliverable(genReqs) :
    /\ genReqs' = Put(Take(genReqs, m), [m EXCEPT !.stage = "response", !.status = NoStatus, !.data = NoData])
    /\ UNCHANGED << appVars, serverVars, scoreReqs, saveReqs, now >>

GetScoresTransportFailure ==
  \E m \in Deliverable(scoreReqs) :
    /\ scoreReqs' = Put(Take(scoreReqs, m), [m EXCEPT !.stage = "response", !.status = NoStatus, !.data = NoScores])
    /\ UNCHANGED << appVars, serverVars, genReqs, saveReqs, now >>

SaveScoreTransportFailure ==
  \E m \in Deliverable(saveReqs) :
    /\ saveReqs' = Put(Take(saveReqs, m), [m EXCEPT !.stage = "response", !.status = NoStatus])
    /\ UNCHANGED << appVars, serverVars, genReqs, scoreReqs, now >>

(* ---------------------------- client actions --------------------------- *)

\* fetchScores() of the render in which `user` is currentUser, up to its await
fetchScores(user) ==
  /\ loadingScores' = TRUE
  /\ scoreReqs' = Put(scoreReqs, ScoresRequest("app", QueryUsername(user)))

\* the user types a name and presses Start Quiz (or Enter): onChange of the
\* name box, handleLogin, and the effect on [currentUser] that follows the
\* render; a blank name leaves handleLogin without effect
handleLogin ==
  \E text \in UsernameInputs :
    /\ LoginScreen
    /\ usernameInput' = text
    /\ IF Trim(text) # EmptyStr
       THEN /\ currentUser' = Some(Trim(text))
            /\ error' = ""
            /\ topic' = EmptyStr
            /\ quizData' = Null
            /\ results' = Null
            /\ fetchScores(Trim(text))
       ELSE UNCHANGED << currentUser, error, topic, quizData, results, loadingScores, scoreReqs >>
    /\ UNCHANGED << userAnswers, isLoading, pastScores, serverVars, genReqs, saveReqs, now >>

handleLogout ==
  /\ ~LoginScreen
  /\ currentUser' = Null
  /\ usernameInput' = EmptyStr
  /\ pastScores' = << >>
  /\ topic' = EmptyStr
  /\ quizData' = Null
  /\ results' = Null
  /\ UNCHANGED << userAnswers, isLoading, error, loadingScores, serverVars, netVars, now >>

\* a reset that, like handleLogout, leaves the answer vector
handleTakeAnotherQuizKeepsAnswers ==
  /\ ResultsView
  /\ topic' = EmptyStr
  /\ quizData' = Null
  /\ results' = Null
  /\ error' = ""
  /\ fetchScores(Val(currentUser))
  /\ UNCHANGED << usernameInput, currentUser, userAnswers, isLoading, pastScores, serverVars,
                  genReqs, saveReqs, now >>

handleTakeAnotherQuiz ==
  /\ ResultsView
  /\ topic' = EmptyStr
  /\ quizData' = Null
  /\ userAnswers' = Null
  /\ results' = Null
  /\ error' = ""
  /\ fetchScores(Val(currentUser))
  /\ UNCHANGED << usernameInput, currentUser, isLoading, pastScores, serverVars, genReqs, saveReqs, now >>

\* the user types a topic and presses Generate Quiz: onChange of the topic
\* box (disabled while isLoading) and handleGenerateQuiz up to its await; a
\* blank topic leaves the button disabled and handleGenerateQuiz returns
handleGenerateQuiz ==
  \E text \in TopicInputs :
    /\ InputView
    /\ ~isLoading
    /\ topic' = text
    /\ IF Trim(text) # EmptyStr
       THEN /\ isLoading' = TRUE
            /\ error' = ""
            /\ quizData' = Null
            /\ results' = Null
            /\ genReqs' = Put(genReqs, GenRequest(text))
       ELSE UNCHANGED << isLoading, error, quizData, results, genReqs >>
    /\ UNCHANGED << usernameInput, currentUser, userAnswers, pastScores, loadingScores,
                    serverVars, scoreReqs, saveReqs, now >>

\* a continuation without the finally block: isLoading is released on the
\* success path only
GenerateQuizResponseNoFinally ==
  \E m \in Pending(genReqs, "response") :
    LET questions == AcceptedQuestions(m.data)
    IN  /\ genReqs' = Take(genReqs, m)
        /\ IF m.status # 200 \/ m.data.shape = "null"
           THEN /\ error' = "Error connecting to AI service."
                /\ UNCHANGED << quizData, userAnswers, isLoading >>
           ELSE IF Len(questions) > 0
           THEN /\ quizData' = Some(questions)
                /\ userAnswers' = Some(FreshAnswers(questions))
                /\ isLoading' = FALSE
                /\ UNCHANGED error
           ELSE /\ error' = "Failed to generate quiz."
                /\ isLoading' = FALSE
                /\ UNCHANGED << quizData, userAnswers >>
        /\ UNCHANGED << usernameInput, currentUser, topic, results, pastScores, loadingScores,
                        serverVars, scoreReqs, saveReqs, now >>

\* handleGenerateQuiz after its await
GenerateQuizResponse ==
  \E m \in Pending(genReqs, "response") :
    LET questions == AcceptedQuestions(m.data)
    IN  /\ genReqs' = Take(genReqs, m)
        /\ IF m.status # 200 \/ m.data.shape = "null"
           THEN /\ error' = "Error connecting to AI service."
                /\ UNCHANGED << quizData, userAnswers >>
           ELSE IF Len(questions) > 0
           THEN /\ quizData' = Some(questions)
                /\ userAnswers' = Some(FreshAnswers(questions))
                /\ UNCHANGED error
           ELSE /\ error' = "Failed to generate quiz."
                /\ UNCHANGED << quizData, userAnswers >>
        /\ isLoading' = FALSE
        /\ UNCHANGED << usernameInput, currentUser, topic, results, pastScores, loadingScores,
                        serverVars, scoreReqs, saveReqs, now >>

\* a selection that clears the slot when the option is selected again
SelectAnswerToggles(answers, i, optionIndex) ==
  [answers EXCEPT ![i] = IF @ = optionIndex THEN Unset ELSE optionIndex]

\* newAnswers = [...userAnswers]; newAnswers[questionIndex] = optionIndex
SelectAnswer(answers, i, optionIndex) == [answers EXCEPT ![i] = optionIndex]

\* handleAnswerSelect(questionIndex, optionIndex) from a radio button of the quiz
handleAnswerSelect ==
  \E i \in 1..MaxQuestions, optionIndex \in OptionClicks :
    /\ QuizView
    /\ i <= Len(Val(quizData))
    /\ optionIndex < Len(Val(quizData)[i].options)
    /\ userAnswers' = Some(SelectAnswer(Val(userAnswers), i, optionIndex))
    /\ UNCHANGED << usernameInput, currentUser, topic, quizData, results, isLoading, error,
                    pastScores, loadingScores, serverVars, netVars, now >>

\* body of the save-score request built by handleSubmitQuiz
newScoreData(user, t, finalResults, time) ==
  [username |-> user, topic |-> t, score |-> finalResults.score,
   total |-> finalResults.total, timestamp |-> time]

\* handleSubmitQuiz up to its await (the button is disabled while isLoading)
handleSubmitQuiz ==
  /\ QuizView
  /\ ~isLoading
  /\ IF HasUnanswered(Val(userAnswers))
     THEN /\ error' = "Please answer all questions."
          /\ UNCHANGED << results, isLoading, saveReqs, now >>
     ELSE LET finalResults == ScoreLocally(Val(quizData), Val(userAnswers))
          IN  /\ now < MaxClock
              /\ isLoading' = TRUE
              /\ results' = Some(finalResults)
              /\ saveReqs' = Put(saveReqs,
                    SaveRequest("app", newScoreData(Val(currentUser), topic, finalResults, now)))
              /\ now' = now + 1
              /\ UNCHANGED error
  /\ UNCHANGED << usernameInput, currentUser, topic, quizData, userAnswers, pastScores,
                  loadingScores, serverVars, genReqs, scoreReqs >>

\* handleSubmitQuiz after its await; fetchScores is the one of the render
\* that submitted, so it asks for the user who submitted
SaveScoreResponse ==
  \E m \in { r \in Pending(saveReqs, "response") : r.from = "app" } :
    /\ saveReqs' = Take(saveReqs, m)
    /\ IF m.status = 201
       THEN fetchScores(m.body.username)
       ELSE UNCHANGED << loadingScores, scoreReqs >>
    /\ isLoading' = FALSE
    /\ UNCHANGED << usernameInput, currentUser, topic, quizVars, error, pastScores,
                    serverVars, genReqs, now >>

\* fetchScores after its await; sort of a body that is not an array throws
GetScoresResponse ==
  \E m \in { r \in Pending(scoreReqs, "response") : r.from = "app" } :
    /\ scoreReqs' = Take(scoreReqs, m)
    /\ IF m.status = 200 /\ m.data.isArray
       THEN pastScores' = SortNewestFirst(m.data.items)
       ELSE UNCHANGED pastScores
    /\ loadingScores' = FALSE
    /\ UNCHANGED << usernameInput, currentUser, topic, quizVars, isLoading, error,
                    serverVars, genReqs, saveReqs, now >>

(* ------------------------ other clients of the API --------------------- *)

FromApi(bag) == { m \in BagToSet(bag) : m.from = "api" }
InFlightFromApi(bag) == BagCardinality([m \in FromApi(bag) |-> bag[m]])

\* POST /api/save-score sent by any HTTP client
ApiSaveScore ==
  \E u \in ApiUsernames, t \in ApiTopics :
    /\ now < MaxClock
    /\ InFlightFromApi(saveReqs) < MaxApiInFlight
    /\ saveReqs' = Put(saveReqs, SaveRequest("api",
           [username |-> u, topic |-> t, score |-> 0, total |-> 1, timestamp |-> now]))
    /\ now' = now + 1
    /\ UNCHANGED << appVars, serverVars, genReqs, scoreReqs >>

\* GET /api/get-scores sent by any HTTP client
ApiGetScores ==
  \E u \in ApiUsernames :
    /\ InFlightFromApi(scoreReqs) < MaxApiInFlight
    /\ scoreReqs' = Put(scoreReqs, ScoresRequest("api", u))
    /\ UNCHANGED << appVars, serverVars, genReqs, saveReqs, now >>

\* the client reads the response
ApiReceive ==
  \/ \E m \in { r \in Pending(saveReqs, "response") : r.from = "api" } :
       /\ saveReqs' = Take(saveReqs, m)
       /\ UNCHANGED << appVars, serverVars, genReqs, scoreReqs, now >>
  \/ \E m \in { r \in Pending(scoreReqs, "response") : r.from = "api" } :
       /\ scoreReqs' = Take(scoreReqs, m)
       /\ UNCHANGED << appVars, serverVars, genReqs, saveReqs, now >>

(* ----------------------------- specifications -------------------------- *)

\* at most n get-scores calls of the App are in flight
FetchesWithin(n) == BagCardinality(scoreReqs) <= n

\* the App, the server and the network between them; a step that would put
\* more than MaxInFlight get-scores calls in flight is left out
Next ==
  \/ handleLogin /\ FetchesWithin(MaxInFlight)'
  \/ handleLogout
  \/ handleTakeAnotherQuiz /\ FetchesWithin(MaxInFlight)'
  \/ handleGenerateQuiz
  \/ GenerateQuizResponse
  \/ handleAnswerSelect
  \/ handleSubmitQuiz
  \/ SaveScoreResponse /\ FetchesWithin(MaxInFlight)'
  \/ GetScoresResponse
  \/ GenerateQuizRoute
  \/ GetScoresRoute
  \/ SaveScoreRoute
  \/ GenerateTransportFailure
  \/ GetScoresTransportFailure
  \/ SaveScoreTransportFailure

Spec == Init /\ [][Next]_vars

\* every request is served or fails, and the continuation of every handler
\* runs once its call has settled: the server answers a request it holds,
\* and the event loop runs a continuation that is ready. (The continuation
\* of handleSubmitQuiz is ready whenever its call has settled; the bound of
\* Next on get-scores calls can hold it back only for a time, hence SF.)
Fairness ==
  /\ WF_vars(GenerateQuizRoute)
  /\ WF_vars(SaveScoreRoute)
  /\ WF_vars(GetScoresRoute)
  /\ WF_vars(GenerateQuizResponse)
  /\ WF_vars(GetScoresResponse)
  /\ SF_vars(SaveScoreResponse /\ FetchesWithin(MaxInFlight)')

\* the App, the server and the network as in Next, with up to MaxLiveClock
\* submissions
NextLive ==
  \/ handleLogin /\ FetchesWithin(MaxInFlight)'
  \/ handleLogout
  \/ handleTakeAnotherQuiz /\ FetchesWithin(MaxInFlight)'
  \/ handleGenerateQuiz
  \/ GenerateQuizResponse
  \/ handleAnswerSelect
  \/ handleSubmitQuiz /\ now' <= MaxLiveClock
  \/ SaveScoreResponse /\ FetchesWithin(MaxInFlight)'
  \/ GetScoresResponse
  \/ GenerateQuizRoute
  \/ GetScoresRoute
  \/ SaveScoreRoute
  \/ GenerateTransportFailure
  \/ GetScoresTransportFailure
  \/ SaveScoreTransportFailure

SpecLive == Init /\ [][NextLive]_vars /\ Fairness

\* the score routes of the server under requests of any HTTP clients
NextApi ==
  \/ ApiSaveScore
  \/ ApiGetScores
  \/ SaveScoreRoute
  \/ GetScoresRoute
  \/ ApiReceive

SpecApi == Init /\ [][NextApi]_vars

\* the name typed where one user logs in again and again
HistoryUser == << "a" >>

\* this step reads db.json without failure for the get-scores call it answers
ReadSucceeds ==
  \E m \in Pending(scoreReqs, "request") :
    LET r == GetScoresResult(dbFile, m.username, TRUE)
    IN  scoreReqs' = Put(Take(scoreReqs, m),
                         [m EXCEPT !.stage = "response", !.status = r.status, !.data = r.data])

\* this step reads and writes db.json without failure for the save-score
\* call it answers
WriteSucceeds ==
  \E m \in Pending(saveReqs, "request") : dbFile' = SaveScoreResult(dbFile, m.body, TRUE, "ok").file

\* the App of one user with up to MaxFetches get-scores calls in flight, a
\* network that loses nothing and a store that never fails: only the order
\* of the steps varies
NextHistory ==
  \/ handleLogin /\ FetchesWithin(MaxFetches)' /\ currentUser' \in { Null, Some(HistoryUser) }
  \/ handleLogout
  \/ handleTakeAnotherQuiz /\ FetchesWithin(MaxFetches)'
  \/ handleGenerateQuiz
  \/ GenerateQuizResponse
  \/ handleAnswerSelect
  \/ handleSubmitQuiz
  \/ SaveScoreResponse /\ FetchesWithin(MaxFetches)'
  \/ GetScoresResponse
  \/ GenerateQuizRoute
  \/ GetScoresRoute /\ ReadSucceeds
  \/ SaveScoreRoute /\ WriteSucceeds

SpecHistory == Init /\ [][NextHistory]_vars

(* ------------------------- vocabulary of the claims --------------------- *)

\* the history db.json holds for an identity
StoredHistory(file, u) ==
  IF file.kind = "json" /\ u \in DOMAIN file.db THEN file.db[u] ELSE << >>

IsPrefix(s, t) == Len(s) <= Len(t) /\ SubSeq(t, 1, Len(s)) = s

\* this step is the server answering save-score request m with status st
SaveAnswered(m, st) ==
  saveReqs' = Put(Take(saveReqs, m), [m EXCEPT !.stage = "response", !.status = st])

\* this step is the server answering get-scores request m with r
ScoresAnswered(m, r) ==
  /\ r.stage = "response" /\ r.status # NoStatus
  /\ r.from = m.from /\ r.username = m.username
  /\ scoreReqs' = Put(Take(scoreReqs, m), r)

\* this step is "take another quiz": the only step from the results view
\* that sends a get-scores call without reading a save-score response
TakesAnotherQuiz ==
  /\ ResultsView
  /\ BagCardinality(scoreReqs') > BagCardinality(scoreReqs)
  /\ UNCHANGED saveReqs

\* this step sends the save-score call m of a submission
SubmissionSent(m) ==
  /\ m.from = "app" /\ m.stage = "request"
  /\ saveReqs' = Put(saveReqs, m)

\* this step is the server taking a save-score call out of the requests
SaveServed == \E m \in Pending(saveReqs, "request"), st \in {201, 400, 500} : SaveAnswered(m, st)

\* no topic chosen, no quiz, no results, a user logged in
Idle == InputView /\ topic = EmptyStr

AnsweredSlots(answers) == { i \in 1..Len(answers) : answers[i] # Unset }
Identities == ApiUsernames \cup { Trim(text) : text \in UsernameInputs }

(* -------------------------------- claims -------------------------------- *)

\* C1: a submission with every slot set computes a score equal to the
\* number of indices i where the answer equals the question's correctIndex,
\* and marks question i correct exactly when they are equal.
C1_ScoreIsCountOfMatches ==
  [][ (IsNull(results) /\ ~IsNull(results'))
        => LET quiz == Val(quizData)
               answers == Val(userAnswers)
               r == Val(results')
           IN  /\ r.score = Cardinality({ i \in 1..Len(quiz) : answers[i] = quiz[i].correctIndex })
               /\ DOMAIN r.feedback = 1..Len(quiz)
               /\ \A i \in 1..Len(quiz) :
                    r.feedback[i].isCorrect <=> (answers[i] = quiz[i].correctIndex) ]_vars

\* C1 witness: a scored quiz with one answer right and one wrong
C1_Witness ==
  /\ ~IsNull(results) /\ ~IsNull(quizData)
  /\ Val(results).score = 1 /\ Val(results).total = 2
  /\ \E i, j \in 1..2 : Val(results).feedback[i].isCorrect /\ ~Val(results).feedback[j].isCorrect

\* C2: a submission made while a slot is unset is rejected with an error:
\* no results, quiz and answers unchanged, no save-score request, Ledger unchanged.
C2_IncompleteSubmitRejected ==
  [][ (handleSubmitQuiz /\ AnsweredSlots(Val(userAnswers)) # 1..Len(Val(userAnswers)))
        => /\ error' = "Please answer all questions."
           /\ IsNull(results')
           /\ UNCHANGED << quizData, userAnswers, currentUser, saveReqs, dbFile >> ]_vars

\* C2 witness: the error is shown for a quiz answered in part
C2_Witness ==
  /\ QuizView
  /\ error = "Please answer all questions."
  /\ AnsweredSlots(Val(userAnswers)) \notin { {}, 1..Len(Val(userAnswers)) }
  /\ Val(userAnswers)[1] # Unset

\* C3: a save-score that reports success, followed by get-scores for the
\* same identity, returns a sequence whose last element is the appended Attempt.
C3_AppendThenGetHistory ==
  [][ \A m \in Pending(saveReqs, "request") :
        SaveAnswered(m, 201)
          => LET got == GetScoresResult(dbFile', m.body.username, TRUE)
             IN  /\ got.status = 200 /\ got.data.isArray
                 /\ got.data.items # << >>
                 /\ got.data.items[Len(got.data.items)] = scoreDataOf(m.body) ]_vars

\* C4: the history stored for an identity only grows at its end: every
\* step leaves the earlier history as a prefix of the later one.
C4_AppendOnly ==
  [][ \A u \in Identities : IsPrefix(StoredHistory(dbFile, u), StoredHistory(dbFile', u)) ]_vars

\* C5: a submission with every slot set makes the session Scored and sends
\* an Attempt (topic, computed score, total = question count) that the
\* Ledger appends to the history of the logged-in identity.
C5_SubmissionIsAppended ==
  [][ (handleSubmitQuiz /\ AnsweredSlots(Val(userAnswers)) = 1..Len(Val(userAnswers)))
        => /\ ~IsNull(results')
           /\ \E m \in Pending(saveReqs', "request") :
                LET saved == SaveScoreResult(dbFile, m.body, TRUE, "ok")
                    history == StoredHistory(saved.file, m.body.username)
                IN  /\ m.body.username = Val(currentUser)
                    /\ m.body.score = Val(results').score
                    /\ m.body.total = Len(Val(quizData))
                    /\ saved.status = 201
                    /\ history # << >>
                    /\ history[Len(history)] = scoreDataOf(m.body) ]_vars

\* C6: a question whose correctIndex is outside [0,3] or whose options are
\* not 4 is never accepted into the quiz the session holds.
C6_MalformedNeverAccepted ==
  ~IsNull(quizData)
    => \A i \in 1..Len(Val(quizData)) :
         /\ Len(Val(quizData)[i].options) = 4
         /\ Val(quizData)[i].correctIndex \in 0..3

\* C7: when a generation request fails the session is Idle: no quiz, no
\* results, an error recorded, the topic as submitted, nothing recorded in the Ledger.
C7_FailureReturnsToIdle ==
  [][ \A m \in Pending(genReqs, "response") :
        (m.status # 200 /\ genReqs' = Take(genReqs, m))
          => /\ IsNull(quizData') /\ IsNull(results')
             /\ error' # ""
             /\ topic' = m.topic
             /\ UNCHANGED << dbFile, saveReqs >> ]_vars

\* C8: get-scores for a non-empty identity with no stored attempts answers
\* with an empty sequence, never an error, whatever the state of the store.
C8_NoHistoryIsEmptySequence ==
  [][ \A m \in Pending(scoreReqs, "request"), r \in BagToSet(scoreReqs') :
        (m.username # EmptyStr /\ StoredHistory(dbFile, m.username) = << >> /\ ScoresAnswered(m, r))
          => (r.status = 200 /\ r.data.isArray /\ r.data.items = << >>) ]_vars

\* C9: save-score with an empty identity or an empty topic is answered with
\* a validation error (400) and db.json is left as it was.
C9_InvalidSaveRejected ==
  [][ \A m \in Pending(saveReqs, "request"), st \in {201, 400, 500} :
        ((m.body.username = EmptyStr \/ m.body.topic = EmptyStr) /\ SaveAnswered(m, st))
          => (st = 400 /\ dbFile' = dbFile) ]_vars

\* C9 witness: both kinds of invalid request have been answered 400
C9_Witness ==
  /\ \E m \in Pending(saveReqs, "response") :
       m.status = 400 /\ m.body.username = EmptyStr /\ m.body.topic # EmptyStr
  /\ \E m \in Pending(saveReqs, "response") :
       m.status = 400 /\ m.body.username # EmptyStr /\ m.body.topic = EmptyStr

\* C10: while logged out the session holds no quiz, no answer vector and
\* no feedback.
C10_LoggedOutHoldsNothing ==
  LoginScreen => (IsNull(quizData) /\ IsNull(userAnswers) /\ IsNull(results))

\* C11: from Scored, "take another quiz" discards the quiz, the answer vector
\* and the results, returns the session to Idle and keeps the logged-in identity.
C11_TakeAnotherReturnsToIdle ==
  [][ TakesAnotherQuiz
        => /\ IsNull(quizData') /\ IsNull(userAnswers') /\ IsNull(results')
           /\ Idle'
           /\ currentUser' = currentUser ]_vars

\* C11 witness: Idle again after a scored quiz of the same user, whose
\* history fetch is in flight
C11_Witness ==
  /\ Idle /\ IsNull(userAnswers)
  /\ now > 0
  /\ \E m \in BagToSet(scoreReqs) : m.stage = "request" /\ m.username = Val(currentUser)
  /\ saveReqs = EmptyBag

\* C12: submissions of a session never overlap and a quiz is submitted at
\* most once: a save-score call is sent only while none is in flight and
\* only for a quiz that has no results yet; once a quiz has results it is
\* kept as it is until it is discarded together with them; db.json changes
\* only when the server serves one call, which it serves once.
C12_NoOverlappingSubmissions ==
  [][ /\ \A m \in BagToSet(saveReqs') :
           SubmissionSent(m)
             => /\ saveReqs = EmptyBag
                /\ IsNull(results) /\ ~IsNull(results')
                /\ quizData' = quizData
      /\ ~IsNull(results)
           => /\ saveReqs' = saveReqs \/ BagCardinality(saveReqs') <= BagCardinality(saveReqs)
              /\ quizData' = quizData \/ (IsNull(quizData') /\ IsNull(results'))
      /\ BagCardinality(saveReqs') <= 1
      /\ dbFile' # dbFile => SaveServed ]_vars

\* C12 witness: the one Attempt of a quiz is stored and its call still
\* awaited while the user has already left the results
C12_Witness ==
  /\ InputView /\ isLoading
  /\ \E m \in Pending(saveReqs, "response") :
       /\ m.status = 201
       /\ StoredHistory(dbFile, m.body.username) = << scoreDataOf(m.body) >>

\* C13: once the save-score of a submission has succeeded and no get-scores
\* or save-score call is outstanding, the history displayed to the user who
\* is logged in contains every Attempt stored for that user.
C13_DisplayedHistoryHasAppended ==
  (~IsNull(currentUser) /\ scoreReqs = EmptyBag /\ saveReqs = EmptyBag)
    => LET stored == StoredHistory(dbFile, Val(currentUser))
       IN  \A i \in 1..Len(stored) : \E j \in 1..Len(pastScores) : pastScores[j] = stored[i]

\* C14: a failed append of a submission is reported: when the App reads a
\* save-score response that is no success the user is shown an error
\* message, and the server answers success only when db.json holds the Attempt.
C14_AppendFailureReported ==
  [][ /\ \A m \in Pending(saveReqs, "response") :
           (m.from = "app" /\ m.status # 201 /\ saveReqs' = Take(saveReqs, m)) => error' # ""
      /\ \A m \in Pending(saveReqs, "request") :
           (m.from = "app" /\ SaveAnswered(m, 201))
             => \E i \in DOMAIN StoredHistory(dbFile', m.body.username) :
                  StoredHistory(dbFile', m.body.username)[i] = scoreDataOf(m.body) ]_vars

\* C15: when two save-score calls for the same identity are in flight
\* together and both are answered with success, the history stored for the
\* identity holds both Attempts.
C15_ConcurrentAppendsBothStored ==
  \A m1, m2 \in Pending(saveReqs, "response") :
    (m1 # m2 /\ m1.status = 201 /\ m2.status = 201 /\ m1.body.username = m2.body.username)
      => \A m \in {m1, m2} :
           \E i \in DOMAIN StoredHistory(dbFile, m.body.username) :
             StoredHistory(dbFile, m.body.username)[i] = scoreDataOf(m.body)

\* C16: whenever the session holds a quiz it holds an answer vector with
\* exactly one slot per question of that quiz, and the step that accepts a
\* generated quiz leaves every slot unset.
\* (The session holds no quiz initially, so the first conjunct covers every
\* reachable state.)
C16_AnswerVectorMatchesQuiz ==
  [][ /\ ~IsNull(quizData')
           => /\ ~IsNull(userAnswers')
              /\ DOMAIN Val(userAnswers') = 1..Len(Val(quizData'))
      /\ (quizData' # quizData /\ ~IsNull(quizData'))
           => AnsweredSlots(Val(userAnswers')) = {} ]_vars

\* C16 witness: a second quiz is held after the first one was answered and
\* submitted, with a fresh answer vector
C16_Witness ==
  /\ QuizView /\ now > 0
  /\ Len(Val(quizData)) = MaxQuestions
  /\ DOMAIN Val(userAnswers) = 1..MaxQuestions
  /\ AnsweredSlots(Val(userAnswers)) = {}

\* C17: a selection while the quiz is shown sets one slot to the selected
\* option whatever the slot held, leaves the other slots, the quiz, the
\* results and db.json unchanged, and selecting the same option once more
\* gives the same answer vector.
C17_SelectSetsOneSlot ==
  [][ (QuizView /\ userAnswers' # userAnswers)
        => /\ \E i \in DOMAIN Val(userAnswers), o \in 0..3 :
                /\ o < Len(Val(quizData)[i].options)
                /\ Val(userAnswers')[i] = o
                /\ \A j \in DOMAIN Val(userAnswers) \ {i} : Val(userAnswers')[j] = Val(userAnswers)[j]
                /\ DOMAIN Val(userAnswers') = DOMAIN Val(userAnswers)
                /\ SelectAnswer(Val(userAnswers'), i, o) = Val(userAnswers')
           /\ UNCHANGED << quizData, results, dbFile, currentUser, topic, netVars >> ]_vars

\* C17 witness: both questions of the quiz shown hold a selection, of
\* different options
C17_Witness ==
  /\ QuizView
  /\ Len(Val(quizData)) = 2
  /\ Val(userAnswers)[1] = 1 /\ Val(userAnswers)[2] = 0

\* C18: a save-score for one identity leaves the stored history of every
\* other identity unchanged, and get-scores for the other identity returns
\* the same before and after it.
C18_IdentitiesIndependent ==
  [][ \A m \in Pending(saveReqs, "request"), st \in {201, 400, 500} :
        SaveAnswered(m, st)
          => \A other \in Identities \ { m.body.username } :
               /\ StoredHistory(dbFile', other) = StoredHistory(dbFile, other)
               /\ GetScoresResult(dbFile', other, TRUE) = GetScoresResult(dbFile, other, TRUE) ]_vars

\* C19: the displayed history is empty while no user is logged in, and
\* otherwise holds only Attempts that db.json stores for the logged-in user.
C19_DisplayedHistoryOfCurrentUser ==
  /\ LoginScreen => pastScores = << >>
  /\ ~LoginScreen
       => \A j \in 1..Len(pastScores) :
            \E i \in DOMAIN StoredHistory(dbFile, Val(currentUser)) :
              StoredHistory(dbFile, Val(currentUser))[i] = pastScores[j]

\* C20: when every request is served or fails, isLoading is false again
\* some time after every generation request and every submission, whatever
\* the user does in between.
C20_LoadingReleased == isLoading ~> ~isLoading

\* C20 witness: every call has settled after a submission, the user has
\* logged out, and isLoading is released
C20_Witness ==
  /\ ~isLoading /\ now > 0
  /\ saveReqs = EmptyBag /\ genReqs = EmptyBag
  /\ LoginScreen

====
